---- MODULE Spec2Model ----
(***************************************************************************)
(* A model of pydoclint's tree-walking Visitor (src/pydoclint/visitor.py): *)
(* the walk over class and function definitions with its parent context,   *)
(* and the argument, return, yield and raise checks run per definition.    *)
(***************************************************************************)
EXTENDS Integers, Sequences, FiniteSets, TLC

\* ------------------------------------------------------------------ bounds
\* Longest documented / actual parameter list drawn for the argument check.
MaxArgs == 2
\* Most class and function definitions in a walked tree.
MaxNodes == 3
\* How many times the checker is run on one tree.
MaxRuns == 2

\* ------------------------------------------------------------- basic data
\* self.parent = None: no enclosing definition (module level).
None == 0

NoHint == "absent"
ArgNames == {"a", "b", "c"}
TypeHints == {NoHint, "int"}

Range(s) == {s[i] : i \in 1..Len(s)}
SeqsUpTo(S, n) == UNION {[1..k -> S] : k \in 0..n}
NoDupNames(s) == \A i, j \in 1..Len(s) : i # j => s[i].arg # s[j].arg
Tail1(s) == IF Len(s) = 0 THEN s ELSE Tail(s)

\* numpydoc Parameter entries of a docstring's Parameters section.
DocParams == [name : ArgNames, type : TypeHints]
\* ast.arg entries of a signature (parameter names are distinct in Python).
AstArgs == [arg : ArgNames \cup {"self"}, annotation : TypeHints]

\* Arg.fromNumpydocParam / Arg.fromAstArg: the normalized Arg of an entry.
fromNumpydocParam(p) == [name |-> p.name, typeHint |-> p.type]
fromAstArg(a) == [name |-> a.arg, typeHint |-> a.annotation]
\* ArgList([...]) of the documented and of the actual parameters.
DocArgsOf(docArgList) == [i \in 1..Len(docArgList) |-> fromNumpydocParam(docArgList[i])]
FuncArgsOf(actualArgs) == [i \in 1..Len(actualArgs) |-> fromAstArg(actualArgs[i])]

\* Arg equality under the checkTypeHint mode flag.
ArgEq(x, y, checkTypeHint) ==
    /\ x.name = y.name
    /\ (checkTypeHint => x.typeHint = y.typeHint)

\* ArgList.equals: a per-position comparison when order matters, a
\* comparison as sets of Args under the same element equality when not.
ArgListEquals(self, other, checkTypeHint, orderMatters) ==
    IF orderMatters
    THEN /\ Len(self) = Len(other)
         /\ \A i \in 1..Len(self) : ArgEq(self[i], other[i], checkTypeHint)
    ELSE /\ \A x \in Range(self) : \E y \in Range(other) : ArgEq(x, y, checkTypeHint)
         /\ \A y \in Range(other) : \E x \in Range(self) : ArgEq(x, y, checkTypeHint)

\* ArgList.subtract: the Args of self absent from other (name + type hint).
ArgListSubtract(self, other) == Range(self) \ Range(other)

\* Violation(code, line, msgPrefix, msgPostfix).
Violation(code, line, msgPrefix, msgPostfix) ==
    [code |-> code, line |-> line, msgPrefix |-> msgPrefix, msgPostfix |-> msgPostfix]
NoPostfix == <<{}, {}>>
Codes(vs) == {vs[i].code : i \in 1..Len(vs)}
CodeSeq(vs) == [i \in 1..Len(vs) |-> vs[i].code]
OnlyIf(cond, v) == IF cond THEN <<v>> ELSE <<>>

\* ------------------------------------------------------------------ state
VARIABLES
    checkTypeHint,                \* Visitor configuration (constructor arguments)
    checkArgOrder,
    skipCheckingShortDocstrings,
    skipCheckingRaises,
    nodes,        \* the parsed tree: its class / function definitions, in source order
    parent,       \* self.parent: the innermost enclosing definition, or None
    violations,   \* self.violations
    stack,        \* the active visit calls: node, its local parent_, next child to visit
    pc,           \* "idle" (constructed), "walking", "done" (visit returned)
    run,          \* which run of the checker on this tree
    owners,       \* history: the definition whose visit appended each violation
    checked,      \* history: the last visit_FunctionDef: node, parent_ used, what it emitted
    firstRun,     \* history: the violation sequence the first run returned
    call          \* a direct call of validateDocArgs: its inputs and its result

cfgVars == <<checkTypeHint, checkArgOrder, skipCheckingShortDocstrings, skipCheckingRaises>>
walkVars == <<nodes, parent, violations, stack, pc, run, owners, checked, firstRun>>
vars == <<cfgVars, walkVars, call>>

\* --------------------------------------------------------- docstrings
\* A docstring, by the sections numpydoc parses out of it.  empty: docstring == ''.
EmptyDoc == [empty |-> TRUE, Parameters |-> <<>>, Returns |-> FALSE,
             Yields |-> FALSE, Raises |-> FALSE]
DocOf(params, returns, yields, raises) ==
    [empty |-> FALSE, Parameters |-> params, Returns |-> returns,
     Yields |-> yields, Raises |-> raises]
ShortDoc == DocOf(<<>>, FALSE, FALSE, FALSE)

getDocstring(n) == n.docstring
NumpyDocString(docstring) == docstring
\* isShortDocstring: a summary and no section.
isShortDocstring(doc) ==
    /\ ~doc.empty
    /\ doc.Parameters = <<>>
    /\ ~doc.Returns /\ ~doc.Yields /\ ~doc.Raises

\* ---------------------------------------------------- predicate extractors
hasReturnStatements(node) == node.hasReturnStmt
hasReturnAnnotation(node) == node.returns # "none"
hasGeneratorAsReturnAnnotation(node) == node.returns = "generator"
hasYieldStatements(node) == node.hasYieldStmt
hasRaiseStatements(node) == node.hasRaiseStmt

IsClassDef(p) == p # None /\ nodes[p].kind = "ClassDef"

\* detectMethodType: by decorator; undecorated methods are instance methods.
detectMethodType(node) ==
    CASE node.decorator = "staticmethod" -> "STATIC_METHOD"
      [] node.decorator = "classmethod" -> "CLASS_METHOD"
      [] OTHER -> "INSTANCE_METHOD"

\* generateMsgPrefix: "Method `C.f`" inside a class, "Function `f`" otherwise.
generateMsgPrefix(node, parent_, appendColon) ==
    IF IsClassDef(parent_)
    THEN <<"Method", nodes[parent_].name, node.name, appendColon>>
    ELSE <<"Function", "", node.name, appendColon>>
ClassMsgPrefix(className) == <<"Class", className, "", TRUE>>

\* ------------------------------------------------------ argument check
\* The two count checks, with 102 raised whenever the counts differ.
countViolations_CountsDiffer(docArgs, funcArgs, lineNum, msgPrefix) ==
    OnlyIf(Len(docArgs) < Len(funcArgs), Violation(101, lineNum, msgPrefix, NoPostfix))
    \o OnlyIf(Len(docArgs) # Len(funcArgs), Violation(102, lineNum, msgPrefix, NoPostfix))

\* 101 and 102: fewer, or more, documented arguments than actual ones.
countViolations(docArgs, funcArgs, lineNum, msgPrefix) ==
    OnlyIf(Len(docArgs) < Len(funcArgs), Violation(101, lineNum, msgPrefix, NoPostfix))
    \o OnlyIf(Len(docArgs) > Len(funcArgs), Violation(102, lineNum, msgPrefix, NoPostfix))

\* 103 with the two differences its message lists.
v103(docArgs, funcArgs, lineNum, msgPrefix) ==
    Violation(103, lineNum, msgPrefix,
              <<ArgListSubtract(funcArgs, docArgs), ArgListSubtract(docArgs, funcArgs)>>)

\* The diagnosis with each relaxation tried on its own (if, not elif).
mismatchDiagnosis_Independent(docArgs, funcArgs, lineNum, msgPrefix) ==
    LET v(c) == Violation(c, lineNum, msgPrefix, NoPostfix)
        eq(t, o) == ArgListEquals(docArgs, funcArgs, t, o)
    IN  IF eq(checkTypeHint, checkArgOrder) THEN <<>>
        ELSE OnlyIf(eq(checkTypeHint, FALSE), v(104))
             \o OnlyIf(eq(FALSE, checkArgOrder), v(105))
             \o (IF eq(FALSE, FALSE) THEN <<v(104), v(105)>>
                 ELSE <<v103(docArgs, funcArgs, lineNum, msgPrefix)>>)

\* The diagnosis with the strict comparison ignoring the configuration.
mismatchDiagnosis_StrictAlways(docArgs, funcArgs, lineNum, msgPrefix) ==
    LET v(c) == Violation(c, lineNum, msgPrefix, NoPostfix)
        eq(t, o) == ArgListEquals(docArgs, funcArgs, t, o)
    IN  IF eq(TRUE, TRUE) THEN <<>>
        ELSE IF eq(checkTypeHint, FALSE) THEN <<v(104)>>
        ELSE IF eq(FALSE, checkArgOrder) THEN <<v(105)>>
        ELSE IF eq(FALSE, FALSE) THEN <<v(104), v(105)>>
        ELSE <<v103(docArgs, funcArgs, lineNum, msgPrefix)>>

\* The diagnosis of a mismatch under the configured comparison: the first
\* relaxation that makes the lists equal, or the detailed difference.
mismatchDiagnosis(docArgs, funcArgs, lineNum, msgPrefix) ==
    LET v(c) == Violation(c, lineNum, msgPrefix, NoPostfix)
        eq(t, o) == ArgListEquals(docArgs, funcArgs, t, o)
    IN  IF eq(checkTypeHint, checkArgOrder) THEN <<>>
        ELSE IF eq(checkTypeHint, FALSE) THEN <<v(104)>>
        ELSE IF eq(FALSE, checkArgOrder) THEN <<v(105)>>
        ELSE IF eq(FALSE, FALSE) THEN <<v(104), v(105)>>
        ELSE <<v103(docArgs, funcArgs, lineNum, msgPrefix)>>

validateDocArgs(docArgList, actualArgs, lineNum, msgPrefix) ==
    LET docArgs == DocArgsOf(docArgList)
        funcArgs == FuncArgsOf(actualArgs)
    IN  IF Len(docArgs) = 0 /\ Len(funcArgs) = 0 THEN <<>>
        ELSE countViolations(docArgs, funcArgs, lineNum, msgPrefix)
             \o mismatchDiagnosis(docArgs, funcArgs, lineNum, msgPrefix)

checkArguments(node, parent_, docstringStruct) ==
    LET isMethod == IsClassDef(parent_)
        msgPrefix == generateMsgPrefix(node, parent_, TRUE)
        argList == IF isMethod /\ detectMethodType(node) \in {"INSTANCE_METHOD", "CLASS_METHOD"}
                   THEN Tail1(node.args)
                   ELSE node.args
    IN  validateDocArgs(docstringStruct.Parameters, argList, node.lineno, msgPrefix)

\* --------------------------------------------- return, yield, raise checks
\* checkReturns asking for a Returns section for any return annotation.
checkReturns_AnyAnnotation(node, parent_, nonEmptyDocStruct) ==
    LET msgPrefix == generateMsgPrefix(node, parent_, FALSE)
        hasReturnStmt == hasReturnStatements(node)
        hasReturnAnno == hasReturnAnnotation(node)
        docstringHasReturnSection == nonEmptyDocStruct.Returns
    IN  OnlyIf(~docstringHasReturnSection /\ (hasReturnStmt \/ hasReturnAnno),
               Violation(201, node.lineno, msgPrefix, NoPostfix))
        \o OnlyIf(docstringHasReturnSection /\ ~(hasReturnStmt \/ hasReturnAnno),
                  Violation(202, node.lineno, msgPrefix, NoPostfix))

checkReturns(node, parent_, nonEmptyDocStruct) ==
    LET msgPrefix == generateMsgPrefix(node, parent_, FALSE)
        hasReturnStmt == hasReturnStatements(node)
        hasReturnAnno == hasReturnAnnotation(node)
        hasGenAsRetAnno == hasGeneratorAsReturnAnnotation(node)
        docstringHasReturnSection == nonEmptyDocStruct.Returns
    IN  OnlyIf(~docstringHasReturnSection
                   /\ (hasReturnStmt \/ (hasReturnAnno /\ ~hasGenAsRetAnno)),
               Violation(201, node.lineno, msgPrefix, NoPostfix))
        \o OnlyIf(docstringHasReturnSection /\ ~(hasReturnStmt \/ hasReturnAnno),
                  Violation(202, node.lineno, msgPrefix, NoPostfix))

\* checkReturnsInClassConstructor reporting 302 whatever the class documents.
checkReturnsInClassConstructor_Always(parent_, nonEmptyDocStruct) ==
    <<Violation(302, nodes[parent_].lineno, ClassMsgPrefix(nodes[parent_].name), NoPostfix)>>

checkReturnsInClassConstructor(parent_, nonEmptyDocStruct) ==
    OnlyIf(nonEmptyDocStruct.Returns,
           Violation(302, nodes[parent_].lineno, ClassMsgPrefix(nodes[parent_].name),
                     NoPostfix))

checkYields(node, parent_, nonEmptyDocStruct) ==
    LET msgPrefix == generateMsgPrefix(node, parent_, FALSE)
        v(c) == Violation(c, node.lineno, msgPrefix, NoPostfix)
        docstringHasYieldsSection == nonEmptyDocStruct.Yields
        hasYieldStmt == hasYieldStatements(node)
        hasGenAsRetAnno == hasGeneratorAsReturnAnnotation(node)
    IN  OnlyIf(~docstringHasYieldsSection /\ hasGenAsRetAnno, v(401))
        \o OnlyIf(~docstringHasYieldsSection /\ hasYieldStmt, v(402))
        \o OnlyIf(docstringHasYieldsSection /\ ~hasYieldStmt /\ ~hasGenAsRetAnno, v(403))

checkRaises(node, parent_, nonEmptyDocStruct) ==
    LET msgPrefix == generateMsgPrefix(node, parent_, FALSE)
        v(c) == Violation(c, node.lineno, msgPrefix, NoPostfix)
        docstringHasRaisesSection == nonEmptyDocStruct.Raises
        hasRaiseStmt == hasRaiseStatements(node)
    IN  OnlyIf(hasRaiseStmt /\ ~docstringHasRaisesSection, v(501))
        \o OnlyIf(~hasRaiseStmt /\ docstringHasRaisesSection, v(502))

\* ------------------------------------------------- visit of one definition
isClassConstructor(node, parent_) == node.name = "__init__" /\ IsClassDef(parent_)

\* 301: the constructor carries a docstring of its own.
ownDocstringViolations(node, parent_) ==
    OnlyIf(isClassConstructor(node, parent_) /\ ~getDocstring(node).empty,
           Violation(301, node.lineno, ClassMsgPrefix(nodes[parent_].name), NoPostfix))

\* The working docstring never replaced by the class's.
workingDocstring_Own(node, parent_) == getDocstring(node)

\* The docstring the checks inspect: the class's for a constructor.
workingDocstring(node, parent_) ==
    IF isClassConstructor(node, parent_)
    THEN getDocstring(nodes[parent_])
    ELSE getDocstring(node)

\* The short-docstring skip taken whatever the option says.
skipShort_Always(doc) == isShortDocstring(doc)

skipShort(doc) == skipCheckingShortDocstrings /\ isShortDocstring(doc)

\* The four lists extended in another order: returns first.
extendViolations_ReturnsFirst(argViolations, returnViolations, yieldViolations, raiseViolations) ==
    returnViolations \o argViolations \o yieldViolations \o raiseViolations

extendViolations(argViolations, returnViolations, yieldViolations, raiseViolations) ==
    argViolations \o returnViolations \o yieldViolations \o raiseViolations

\* What visit_FunctionDef finds by its four checks, in the order it appends them.
checkViolations(node, parent_) ==
    LET docstring == workingDocstring(node, parent_)
        doc == NumpyDocString(docstring)
        ctor == isClassConstructor(node, parent_)
        ran == ~docstring.empty /\ ~skipShort(doc)
        argViolations == IF ran THEN checkArguments(node, parent_, doc) ELSE <<>>
        returnViolations ==
            IF docstring.empty THEN <<>>
            ELSE IF ctor THEN checkReturnsInClassConstructor(parent_, doc)
            ELSE IF ran THEN checkReturns(node, parent_, doc)
            ELSE <<>>
        yieldViolations == IF ran THEN checkYields(node, parent_, doc) ELSE <<>>
        raiseViolations ==
            IF ran /\ ~skipCheckingRaises THEN checkRaises(node, parent_, doc) ELSE <<>>
    IN  extendViolations(argViolations, returnViolations, yieldViolations, raiseViolations)

FunctionDefViolations(node, parent_) ==
    ownDocstringViolations(node, parent_) \o checkViolations(node, parent_)

\* ------------------------------------------------------------- the walk
Min(S) == CHOOSE x \in S : \A y \in S : x <= y
Top == stack[Len(stack)]
\* The definitions directly inside the node being visited that are still to visit.
Pending == {m \in 1..Len(nodes) : nodes[m].up = Top.node /\ m > Top.last}
Frame(n, p_) == [node |-> n, parent_ |-> p_, last |-> 0]
Enter(n, p_) == stack' = Append([stack EXCEPT ![Len(stack)].last = n], Frame(n, p_))
Leave == stack' = SubSeq(stack, 1, Len(stack) - 1)
NoCheck == [node |-> None, parent_ |-> None, emitted |-> <<>>]

\* visitor.visit(tree): the generic visit of the module node.
visit ==
    /\ pc = "idle"
    /\ pc' = "walking"
    /\ stack' = <<Frame(None, None)>>
    /\ UNCHANGED <<cfgVars, nodes, parent, violations, run, owners, checked, firstRun, call>>

visit_ClassDef ==
    /\ pc = "walking"
    /\ Pending # {}
    /\ LET n == Min(Pending) IN
        /\ nodes[n].kind = "ClassDef"
        /\ parent' = n
        /\ Enter(n, parent)
    /\ UNCHANGED <<cfgVars, nodes, violations, pc, run, owners, checked, firstRun, call>>

\* visit_FunctionDef up to its generic_visit of the body.
FunctionDefBody(n) ==
    LET parent_ == parent
        found == FunctionDefViolations(nodes[n], parent_)
    IN  /\ parent' = n
        /\ violations' = violations \o found
        /\ owners' = owners \o [i \in 1..Len(found) |-> n]
        /\ checked' = [node |-> n, parent_ |-> parent_, emitted |-> found]
        /\ Enter(n, parent_)
        /\ UNCHANGED <<cfgVars, nodes, pc, run, firstRun, call>>

visit_FunctionDef ==
    /\ pc = "walking"
    /\ Pending # {}
    /\ nodes[Min(Pending)].kind = "FunctionDef"
    /\ FunctionDefBody(Min(Pending))

visit_AsyncFunctionDef ==
    /\ pc = "walking"
    /\ Pending # {}
    /\ nodes[Min(Pending)].kind = "AsyncFunctionDef"
    /\ FunctionDefBody(Min(Pending))

\* The end of visit_ClassDef: self.parent = currentParent.
ClassDef_return ==
    /\ pc = "walking"
    /\ Pending = {}
    /\ Top.node # None
    /\ nodes[Top.node].kind = "ClassDef"
    /\ parent' = Top.parent_
    /\ Leave
    /\ UNCHANGED <<cfgVars, nodes, violations, pc, run, owners, checked, firstRun, call>>

\* visit_FunctionDef returning without restoring self.parent.
FunctionDef_return_NoRestore ==
    /\ pc = "walking"
    /\ Pending = {}
    /\ Top.node # None
    /\ nodes[Top.node].kind \in {"FunctionDef", "AsyncFunctionDef"}
    /\ Leave
    /\ UNCHANGED <<cfgVars, nodes, parent, violations, pc, run, owners, checked, firstRun, call>>

\* The end of visit_FunctionDef: self.parent = parent_.
FunctionDef_return ==
    /\ pc = "walking"
    /\ Pending = {}
    /\ Top.node # None
    /\ nodes[Top.node].kind \in {"FunctionDef", "AsyncFunctionDef"}
    /\ parent' = Top.parent_
    /\ Leave
    /\ UNCHANGED <<cfgVars, nodes, violations, pc, run, owners, checked, firstRun, call>>

\* visitor.visit(tree) returns: the caller reads self.violations.
visit_return ==
    /\ pc = "walking"
    /\ Pending = {}
    /\ Top.node = None
    /\ pc' = "done"
    /\ Leave
    /\ firstRun' = IF run = 1 THEN violations ELSE firstRun
    /\ UNCHANGED <<cfgVars, nodes, parent, violations, run, owners, checked, call>>

\* Visitor.__init__ leaving the violation list as it is.
VisitorInit_KeepViolations ==
    /\ parent' = None
    /\ violations' = violations

\* Visitor.__init__: the two mutable fields of a new Visitor.
VisitorInit ==
    /\ parent' = None
    /\ violations' = <<>>

\* The checker is run again on the same tree, with a Visitor of the same options.
NewVisitor ==
    /\ pc = "done"
    /\ run < MaxRuns
    /\ VisitorInit
    /\ pc' = "idle"
    /\ run' = run + 1
    /\ owners' = <<>>
    /\ checked' = NoCheck
    /\ UNCHANGED <<cfgVars, nodes, stack, firstRun, call>>

\* A direct call of validateDocArgs on a documented and an actual list.
NoCall == [docArgList |-> <<>>, actualArgs |-> <<>>, result |-> <<>>, done |-> TRUE]
CallValidateDocArgs ==
    /\ ~call.done
    /\ call' = [call EXCEPT
                  !.result = validateDocArgs(call.docArgList, call.actualArgs, 1,
                                             <<"Function", "", "f", TRUE>>),
                  !.done = TRUE]
    /\ UNCHANGED <<cfgVars, walkVars>>

\* ------------------------------------------------------- initial states
Node(kind, name, docstring, args, decorator, returns, ret, yld, rse) ==
    [kind |-> kind, name |-> name, lineno |-> 0, up |-> None, docstring |-> docstring,
     args |-> args, decorator |-> decorator, returns |-> returns,
     hasReturnStmt |-> ret, hasYieldStmt |-> yld, hasRaiseStmt |-> rse]
ClassNode(docstring) ==
    Node("ClassDef", "C", docstring, <<>>, "none", "none", FALSE, FALSE, FALSE)
Placed(n, line, up) == [n EXCEPT !.lineno = line, !.up = up]
P(name, type) == [name |-> name, type |-> type]
A(arg, annotation) == [arg |-> arg, annotation |-> annotation]

WalkInit(tree) ==
    /\ nodes = tree
    /\ parent = None
    /\ violations = <<>>
    /\ stack = <<>>
    /\ pc = "idle"
    /\ run = 1
    /\ owners = <<>>
    /\ checked = NoCheck
    /\ firstRun = <<>>

\* The definitions a walked tree is built from.
Profiles ==
    { ClassNode(DocOf(<<P("a", NoHint)>>, TRUE, FALSE, FALSE)),
      Node("FunctionDef", "__init__", ShortDoc, <<A("self", NoHint)>>, "none", "none",
           FALSE, FALSE, TRUE),
      Node("FunctionDef", "f", DocOf(<<P("a", NoHint)>>, FALSE, TRUE, FALSE),
           <<A("b", NoHint)>>, "none", "none", TRUE, FALSE, TRUE),
      Node("AsyncFunctionDef", "g", ShortDoc, <<A("a", "int")>>, "none", "generator",
           FALSE, TRUE, FALSE) }

RECURSIVE Enclosing(_, _)
\* i and the definitions around it, outward to the module (None).
Enclosing(t, i) == IF i = None THEN {None} ELSE {i} \cup Enclosing(t, t[i].up)

\* Trees in source order: a definition follows the one before it, inside it or
\* inside one of the definitions around it.
Trees(n) ==
    { t \in [1..n -> [profile : Profiles, up : 0..(n-1)]] :
        \A i \in 1..n :
            /\ t[i].up < i
            /\ i > 1 => t[i].up \in Enclosing(t, i - 1) }
TreeOf(t) == [i \in 1..Len(t) |-> Placed(t[i].profile, i, t[i].up)]

Init ==
    /\ checkTypeHint = TRUE
    /\ checkArgOrder = TRUE
    /\ skipCheckingShortDocstrings \in BOOLEAN
    /\ skipCheckingRaises \in BOOLEAN
    /\ \E n \in 0..MaxNodes : \E t \in Trees(n) : WalkInit(TreeOf(t))
    /\ call = NoCall

Next ==
    \/ visit
    \/ visit_ClassDef
    \/ visit_FunctionDef
    \/ visit_AsyncFunctionDef
    \/ ClassDef_return
    \/ FunctionDef_return
    \/ visit_return
    \/ NewVisitor

Spec == Init /\ [][Next]_vars

\* ------------------------------------- one definition, every combination
\* Documentation of the definition under check: empty, or any choice of sections.
DefDocs ==
    {EmptyDoc} \cup
    { DocOf(ps, r, y, e) : ps \in {<<>>, <<P("a", NoHint)>>}, r \in BOOLEAN,
                           y \in BOOLEAN, e \in BOOLEAN }
CtorOwnDocs == {EmptyDoc, ShortDoc, DocOf(<<P("b", "int")>>, TRUE, TRUE, TRUE)}
ReturnAnnotations == {"none", "plain", "generator"}
PlainArgs == {<<>>, <<A("a", NoHint)>>}
MethodArgs == {<<A("self", NoHint)>>, <<A("self", NoHint), A("a", NoHint)>>}
Bodies == [returns : ReturnAnnotations, ret : BOOLEAN, yld : BOOLEAN, rse : BOOLEAN]
Def(kind, name, docstring, args, decorator, b) ==
    Node(kind, name, docstring, args, decorator, b.returns, b.ret, b.yld, b.rse)
OuterFunction ==
    Node("FunctionDef", "outer", EmptyDoc, <<>>, "none", "none", FALSE, FALSE, FALSE)

DefTrees ==
    \* a function at module level
    { <<Placed(Def(k, "f", d, a, "none", b), 1, None)>> :
        k \in {"FunctionDef", "AsyncFunctionDef"}, d \in DefDocs, a \in PlainArgs,
        b \in Bodies }
    \cup
    \* a function inside a function, named __init__ or not
    { <<Placed(OuterFunction, 1, None), Placed(Def("FunctionDef", nm, d, a, "none", b), 2, 1)>> :
        nm \in {"f", "__init__"}, d \in DefDocs, a \in PlainArgs, b \in Bodies }
    \cup
    \* a method that is no constructor
    { <<Placed(ClassNode(EmptyDoc), 1, None),
        Placed(Def("FunctionDef", "f", d, a, dec, b), 2, 1)>> :
        d \in DefDocs, a \in MethodArgs, dec \in {"none", "classmethod", "staticmethod"},
        b \in Bodies }
    \cup
    \* a class constructor
    { <<Placed(ClassNode(cd), 1, None),
        Placed(Def("FunctionDef", "__init__", d, a, "none", b), 2, 1)>> :
        cd \in DefDocs, d \in CtorOwnDocs, a \in MethodArgs, b \in Bodies }

InitDef ==
    /\ checkTypeHint \in BOOLEAN
    /\ checkArgOrder \in BOOLEAN
    /\ skipCheckingShortDocstrings \in BOOLEAN
    /\ skipCheckingRaises \in BOOLEAN
    /\ \E t \in DefTrees : WalkInit(t)
    /\ call = NoCall

NextDef ==
    \/ visit
    \/ visit_ClassDef
    \/ visit_FunctionDef
    \/ visit_AsyncFunctionDef
    \/ ClassDef_return
    \/ FunctionDef_return
    \/ visit_return

SpecDef == InitDef /\ [][NextDef]_vars

\* --------------------------------------- the argument check, every input
DocArgLists == SeqsUpTo(DocParams, MaxArgs)
ActualArgLists ==
    { s \in SeqsUpTo([arg : ArgNames, annotation : TypeHints], MaxArgs) : NoDupNames(s) }

InitArgs ==
    /\ checkTypeHint \in BOOLEAN
    /\ checkArgOrder \in BOOLEAN
    /\ skipCheckingShortDocstrings = TRUE
    /\ skipCheckingRaises = FALSE
    /\ WalkInit(<<>>)
    /\ \E d \in DocArgLists, a \in ActualArgLists :
          call = [docArgList |-> d, actualArgs |-> a, result |-> <<>>, done |-> FALSE]

NextArgs == CallValidateDocArgs

SpecArgs == InitArgs /\ [][NextArgs]_vars

\* =================================================================== claims
\* ----- the argument check (SpecArgs)
CallDocArgs == DocArgsOf(call.docArgList)
CallFuncArgs == FuncArgsOf(call.actualArgs)
CallEq(t, o) == ArgListEquals(CallDocArgs, CallFuncArgs, t, o)
CalledOnLists == call.done /\ (call.docArgList # <<>> \/ call.actualArgs # <<>>)
IsDiagnosis(c) == c \notin {101, 102}
\* The codes of the call other than 101 and 102, in the order emitted.
CallDiagnosis == SelectSeq(CodeSeq(call.result), IsDiagnosis)

\* C1: when the documented list does not equal the actual list under the
\* configured (checkTypeHint, checkArgOrder), the call emits, besides any 101 or
\* 102, exactly one diagnosis, the first that succeeds of: equal ignoring order ->
\* 104; equal ignoring type hints -> 105; equal ignoring both -> 104 and 105;
\* none -> 103.  When the lists are equal it emits no diagnosis.
C1_FirstRelaxation ==
    CalledOnLists =>
        CallDiagnosis =
            IF CallEq(checkTypeHint, checkArgOrder) THEN <<>>
            ELSE IF CallEq(checkTypeHint, FALSE) THEN <<104>>
            ELSE IF CallEq(FALSE, checkArgOrder) THEN <<105>>
            ELSE IF CallEq(FALSE, FALSE) THEN <<104, 105>>
            ELSE <<103>>

\* A call under the strict configuration that only the double relaxation explains,
\* while the counts agree and the order-only relaxation would also be tried first.
C1_Witness ==
    /\ CalledOnLists
    /\ checkTypeHint /\ checkArgOrder
    /\ ~CallEq(TRUE, FALSE) /\ ~CallEq(FALSE, TRUE) /\ CallEq(FALSE, FALSE)
    /\ CodeSeq(call.result) = <<104, 105>>

\* C2 (amended): 101 is emitted exactly when fewer arguments are documented than
\* declared, 102 exactly when more are, and no call emits both.
C2_CountsExclusive ==
    CalledOnLists =>
        /\ 101 \in Codes(call.result) <=> Len(call.docArgList) < Len(call.actualArgs)
        /\ 102 \in Codes(call.result) <=> Len(call.docArgList) > Len(call.actualArgs)
        /\ ~({101, 102} \subseteq Codes(call.result))

\* The counts differ and each list holds an argument the other lacks: 101 alone.
C2_Witness ==
    /\ CalledOnLists
    /\ Len(call.docArgList) < Len(call.actualArgs)
    /\ ArgListSubtract(CallDocArgs, CallFuncArgs) # {}
    /\ ArgListSubtract(CallFuncArgs, CallDocArgs) # {}
    /\ 101 \in Codes(call.result)
    /\ 102 \notin Codes(call.result)

\* C2 as stated: there is a documented and an actual list for which one call of
\* validateDocArgs emits both 101 and 102.
C2_BothCanFire ==
    \E d \in DocArgLists, a \in ActualArgLists :
        {101, 102} \subseteq Codes(validateDocArgs(d, a, 1, <<"Function", "", "f", TRUE>>))

\* C10: a comparison dimension switched off never yields its code: no 104 when
\* checkArgOrder is false, no 105 when checkTypeHint is false.
C10_DisabledDimension ==
    CalledOnLists =>
        /\ (~checkArgOrder => 104 \notin Codes(call.result))
        /\ (~checkTypeHint => 105 \notin Codes(call.result))

\* Both dimensions off, the lists differ in order and in a type hint, and the call
\* reports nothing.
C10_Witness ==
    /\ CalledOnLists
    /\ ~checkArgOrder /\ ~checkTypeHint
    /\ ~CallEq(FALSE, TRUE) /\ ~CallEq(TRUE, FALSE) /\ CallEq(FALSE, FALSE)
    /\ call.result = <<>>

\* ----- the checks of one definition (SpecDef)
\* The definition last visited by visit_FunctionDef, and what that visit used.
Visited == checked.node # None
VNode == nodes[checked.node]
VIsCtor == VNode.name = "__init__" /\ checked.parent_ # None
               /\ nodes[checked.parent_].kind = "ClassDef"
VOwnDoc == VNode.docstring
VWorkingDoc == IF VIsCtor THEN nodes[checked.parent_].docstring ELSE VOwnDoc
VShort == ~VWorkingDoc.empty /\ VWorkingDoc.Parameters = <<>> /\ ~VWorkingDoc.Returns
              /\ ~VWorkingDoc.Yields /\ ~VWorkingDoc.Raises
VChecksRun == ~VWorkingDoc.empty /\ ~(skipCheckingShortDocstrings /\ VShort)
VCodes == Codes(checked.emitted)
\* The declared parameters without the implicit self / cls of a method.
VParams ==
    IF checked.parent_ # None /\ nodes[checked.parent_].kind = "ClassDef"
           /\ VNode.decorator # "staticmethod"
    THEN Tail1(VNode.args)
    ELSE VNode.args
CheckCodes == {101, 102, 103, 104, 105, 201, 202, 302, 401, 402, 403, 501, 502}

\* C3: for a non-constructor definition whose checks are run, 201 is emitted
\* exactly when no Returns section is documented and (a value return exists or a
\* return annotation exists that is no generator annotation); 202 exactly when a
\* Returns section is documented and neither a value return nor a return
\* annotation exists; never both.
C3_ReturnCheck ==
    (Visited /\ ~VIsCtor /\ VChecksRun) =>
        /\ 201 \in VCodes <=>
              (~VWorkingDoc.Returns
                  /\ (VNode.hasReturnStmt
                        \/ (VNode.returns # "none" /\ VNode.returns # "generator")))
        /\ 202 \in VCodes <=>
              (VWorkingDoc.Returns /\ ~VNode.hasReturnStmt /\ VNode.returns = "none")
        /\ ~({201, 202} \subseteq VCodes)

\* A generator annotation, no value return, no Returns section: checked, and no 201.
C3_Witness ==
    /\ Visited /\ ~VIsCtor /\ VChecksRun
    /\ VNode.returns = "generator" /\ ~VNode.hasReturnStmt /\ ~VWorkingDoc.Returns
    /\ 201 \notin VCodes
    /\ 401 \in VCodes

\* C4: a class constructor never gets 201 or 202, whatever its body or return
\* annotation, and gets 302 exactly when the class's documentation has a Returns
\* section.
C4_ConstructorReturns ==
    (Visited /\ VIsCtor) =>
        /\ 201 \notin VCodes
        /\ 202 \notin VCodes
        /\ 302 \in VCodes <=> nodes[checked.parent_].docstring.Returns

\* A constructor returning a value under an annotation, its class documented
\* with sections but no Returns: the ordinary check would say 201; nothing is said.
C4_Witness ==
    /\ Visited /\ VIsCtor /\ VChecksRun
    /\ VNode.hasReturnStmt /\ VNode.returns = "plain"
    /\ ~VWorkingDoc.Returns
    /\ VCodes \cap {201, 202, 302} = {}

IsNot301(v) == v.code # 301
Without301(vs) == SelectSeq(vs, IsNot301)

\* C5: a class constructor gets 301 exactly when its own docstring is non-empty;
\* every other violation is the same whatever its own docstring is (the class's
\* documentation decides them); with an empty class docstring and an own
\* docstring it gets 301 and nothing else.
C5_ConstructorDocstring ==
    (Visited /\ VIsCtor) =>
        /\ 301 \in VCodes <=> ~VOwnDoc.empty
        /\ \A d \in CtorOwnDocs \cup DefDocs :
              Without301(FunctionDefViolations([VNode EXCEPT !.docstring = d],
                                               checked.parent_))
                  = Without301(checked.emitted)
        /\ (nodes[checked.parent_].docstring.empty /\ ~VOwnDoc.empty)
              => CodeSeq(checked.emitted) = <<301>>

\* A constructor with parameters, a raise and a full docstring of its own, in a
\* class without documentation: 301 alone.
C5_Witness ==
    /\ Visited /\ VIsCtor
    /\ VOwnDoc.Returns /\ VOwnDoc.Parameters # <<>>
    /\ nodes[checked.parent_].docstring.empty
    /\ VParams # <<>> /\ VNode.hasRaiseStmt
    /\ CodeSeq(checked.emitted) = <<301>>

\* C6 (amended): with an empty working docstring none of the four checks emits
\* anything, under every configuration.  With a short, non-empty working
\* docstring nothing is emitted when skipCheckingShortDocstrings is true; when it
\* is false, parameters (besides an implicit self / cls) give 101 and 103, a
\* yield gives 402, a value return gives 201 unless the definition is a class
\* constructor, and a raise gives 501 unless skipCheckingRaises is true.
C6_TwoTierSkip ==
    Visited =>
        /\ VWorkingDoc.empty => VCodes \cap CheckCodes = {}
        /\ (VShort /\ skipCheckingShortDocstrings) => VCodes \cap CheckCodes = {}
        /\ (VShort /\ ~skipCheckingShortDocstrings) =>
              /\ VParams # <<>> => {101, 103} \subseteq VCodes
              /\ VNode.hasYieldStmt => 402 \in VCodes
              /\ (VNode.hasReturnStmt /\ ~VIsCtor) => 201 \in VCodes
              /\ (VNode.hasRaiseStmt /\ ~skipCheckingRaises) => 501 \in VCodes

\* A short docstring checked with the option off: parameters, a value return and a
\* yield are reported, the raise is not because raise checking is off.
C6_Witness ==
    /\ Visited /\ VShort /\ ~skipCheckingShortDocstrings /\ skipCheckingRaises
    /\ VParams # <<>> /\ VNode.hasReturnStmt /\ VNode.hasYieldStmt /\ VNode.hasRaiseStmt
    /\ {101, 103, 201, 402} \subseteq VCodes
    /\ 501 \notin VCodes

\* C6 as stated: with the option false, a short docstring on a definition with
\* parameters, a value return, a yield or a raise produces the corresponding
\* violations (and the empty and the option-true tiers produce none).
C6_AsStated ==
    Visited =>
        /\ VWorkingDoc.empty => VCodes \cap CheckCodes = {}
        /\ (VShort /\ skipCheckingShortDocstrings) => VCodes \cap CheckCodes = {}
        /\ (VShort /\ ~skipCheckingShortDocstrings) =>
              /\ VParams # <<>> => {101, 103} \subseteq VCodes
              /\ VNode.hasYieldStmt => 402 \in VCodes
              /\ VNode.hasReturnStmt => 201 \in VCodes
              /\ VNode.hasRaiseStmt => 501 \in VCodes

\* ----- the walk (Spec)
\* The family of a code, in the order the checks append: arguments (counts, then
\* diagnosis), returns, yields, raises.  301 precedes them all.
Family(c) ==
    CASE c = 301 -> 0
      [] c \in {101, 102} -> 1
      [] c \in {103, 104, 105} -> 2
      [] c \in {201, 202, 302} -> 3
      [] c \in {401, 402, 403} -> 4
      [] c \in {501, 502} -> 5
\* Definition x lies inside definition s, or is s.
Within(x, s) == s \in Enclosing(nodes, x)
\* s1 and s2 are directly inside the same definition (or both at module level),
\* s1 earlier in the source.
EarlierSibling(s1, s2) ==
    /\ nodes[s1].up = nodes[s2].up
    /\ nodes[s1].lineno < nodes[s2].lineno

\* C7: the violation list is in traversal order.  Of one definition the
\* violations come by family 101/102, 103/104/105, 201/202/302, 401/402/403,
\* 501/502; no violation of a nested definition comes before one of a definition
\* around it; no violation from a later sibling (or inside it) comes before one
\* from an earlier sibling (or inside it).
C7_TraversalOrder ==
    /\ Len(owners) = Len(violations)
    /\ \A i, j \in 1..Len(violations) :
          i < j =>
            /\ owners[i] = owners[j]
                 => Family(violations[i].code) <= Family(violations[j].code)
            /\ ~(owners[i] # owners[j] /\ Within(owners[i], owners[j]))
            /\ ~(\E s1, s2 \in 1..Len(nodes) :
                    /\ EarlierSibling(s1, s2)
                    /\ Within(owners[i], s2)
                    /\ Within(owners[j], s1))

\* A finished walk of a function, a function nested in it and a later sibling,
\* each with violations, the first with four families of them.
C7_Witness ==
    /\ pc = "done"
    /\ Len(nodes) = 3 /\ nodes[2].up = 1 /\ nodes[3].up = None
    /\ {1, 2, 3} \subseteq Range(owners)
    /\ Cardinality({Family(violations[i].code) :
                       i \in {k \in 1..Len(violations) : owners[k] = 1}}) >= 4

Current == IF pc = "walking" THEN Top.node ELSE None
\* C9, in a state: outside a walk the parent context is absent; during the walk
\* it is the definition being visited; the parent context a definition was
\* checked with is the definition directly around it (None at module level).
C9_ParentContext ==
    /\ parent = Current
    /\ pc = "walking" =>
          \A k \in 1..Len(stack) :
              stack[k].node # None => stack[k].parent_ = nodes[stack[k].node].up
    /\ Visited => checked.parent_ = nodes[checked.node].up
\* C9, in a step: the step that ends the visit of a definition leaves the parent
\* field at the definition directly around it, the value it had when the visit began.
C9_Restored ==
    (pc = "walking" /\ Len(stack') < Len(stack) /\ Top.node # None)
        => parent' = nodes[Top.node].up

\* C9: parent-context stack discipline.  When the visit of a class or function
\* definition returns, the parent field is what it was when the visit began (so
\* it is absent once the walk ends), and a definition is checked with the
\* innermost definition around it as parent context, at any depth.
C9_StackDiscipline == [](C9_ParentContext) /\ [][C9_Restored]_vars

\* The second definition inside a function is checked, after the first one inside
\* it was left: its parent context is the function, not the sibling.
C9_Witness ==
    /\ pc = "walking"
    /\ Len(nodes) = 3 /\ nodes[2].up = 1 /\ nodes[3].up = 1
    /\ nodes[2].kind # "ClassDef"
    /\ checked.node = 3 /\ checked.parent_ = 1
    /\ parent = 3

====
